---- MODULE Spec2Model ----
(***************************************************************************)
(* Model of mapi: the Request identity contract (core.py), the two-phase   *)
(* hook pipeline (core.py, hooks.py) and the asyncio Collector with its    *)
(* work queue, worker pool and join/cancel protocol (collector.py), with   *)
(* the in-memory FakeDatabase (tests/doubles.py) as storage port.          *)
(*                                                                         *)
(* Python objects that are mutated in place and shared by reference (the   *)
(* route_args / query_args / headers dicts) live in a heap, `dicts`; a     *)
(* Request is a record of references into that heap. A dict is a sequence  *)
(* of <<key, value>> pairs in insertion order, as in CPython.              *)
(* Strings are sequences of tokens so that strip('/') and str.format are   *)
(* computed, not assumed.                                                  *)
(***************************************************************************)
EXTENDS Integers, Sequences, FiniteSets, TLC

\* ------------------------------------------------------------------ bounds
NumWorkers == 2
MaxPending == 2
MaxTransportFaults == 1
MaxPuts == 2

\* the value of a one-element set: Only({f(x) : x \in {e}}) is f(e) with e
\* computed once
Only(S) == CHOOSE x \in S : TRUE

\* ------------------------------------------------------- python dict model
NoRef == 0

DictKeys(d) == {d[i][1] : i \in DOMAIN d}

DictItems(d) == {d[i] : i \in DOMAIN d}

DictHas(d, k) == \E i \in DOMAIN d : d[i][1] = k

DictGet(d, k) == d[CHOOSE i \in DOMAIN d : d[i][1] = k][2]

\* d[k] = v : an existing key keeps its position, a new key goes last
DictSet(d, k, v) ==
    IF DictHas(d, k)
    THEN [i \in DOMAIN d |-> IF d[i][1] = k THEN <<k, v>> ELSE d[i]]
    ELSE Append(d, <<k, v>>)

\* dict == dict : same key/value pairs, insertion order irrelevant
DictEq(d1, d2) == DictItems(d1) = DictItems(d2)

\* --------------------------------------------------------- python strings
\* str(v) as used by str.format: the int 0 and the string '0' both give '0'
PyStr(v) ==
    CASE v = "i0" -> <<"0">>
      [] v = "i1" -> <<"1">>
      [] v = "s0" -> <<"0">>
      [] OTHER    -> <<v>>

RECURSIVE LStrip(_)
LStrip(s) == IF s # <<>> /\ Head(s) = "/" THEN LStrip(Tail(s)) ELSE s

RECURSIVE RStrip(_)
RStrip(s) ==
    IF s # <<>> /\ s[Len(s)] = "/" THEN RStrip(SubSeq(s, 1, Len(s) - 1)) ELSE s

\* s.strip('/')
Strip(s) == RStrip(LStrip(s))

\* ----------------------------------------------------------- API / Resource
\* API('http://test.org')
API_host == <<"http:", "/", "/", "test.org">>

Resources == {"users", "users_slash", "hooked", "pair"}

\* route templates: a literal token is a string piece, a replacement field
\* {name} is <<"{", name>>; users_slash is '/users/', hooked is 'hooked/{p}',
\* pair is 'pair/{a}/{b}'
route_template ==
    [r \in Resources |->
        CASE r = "users"       -> << <<"users">> >>
          [] r = "users_slash" -> << <<"/">>, <<"users">>, <<"/">> >>
          [] r = "hooked"      -> << <<"hooked">>, <<"/">>, <<"{", "p">> >>
          [] r = "pair"        -> << <<"pair">>, <<"/">>, <<"{", "a">>,
                                     <<"/">>, <<"{", "b">> >>]

IsField(part) == Len(part) = 2 /\ part[1] = "{"

\* [name for _, name, _, _ in Formatter().parse(route_template) if name]
Resource_route_params(r) ==
    {route_template[r][i][2] :
        i \in {j \in DOMAIN route_template[r] :
                  IsField(route_template[r][j]) /\ route_template[r][j][2] # ""}}

RECURSIVE Format(_, _)
Format(parts, args) ==
    IF parts = <<>> THEN <<>>
    ELSE (IF IsField(Head(parts))
          THEN PyStr(DictGet(args, Head(parts)[2]))
          ELSE Head(parts)) \o Format(Tail(parts), args)

\* ------------------------------------------------------------------ Request
\* (mutation) validation that lets unknown keys pass
Request_validate_missing_only(res, route_args) ==
    {<<"Missing route argument for parameter", k>> :
        k \in Resource_route_params(res) \ DictKeys(route_args)}

\* Request._validate_route_args: the set of errors the call can raise, empty
\* when it returns normally. list(s)[0] of a set is any one of its elements.
\* The missing check comes first and hides the unknown check.
Request_validate_route_args(res, route_args) ==
    LET params == Resource_route_params(res)
        args == DictKeys(route_args)
        missing_args == params \ args
        unknown_params == args \ params
    IN  IF missing_args # {}
        THEN {<<"Missing route argument for parameter", k>> : k \in missing_args}
        ELSE IF unknown_params # {}
        THEN {<<"Unknown route parameter", k>> : k \in unknown_params}
        ELSE {}

\* `x or {}` for an optional dict argument given by reference: None and an
\* empty dict are both falsy and give a fresh empty dict, any other dict is
\* kept by reference (shared with whoever else holds it).
OrFresh(heap, ref) ==
    IF ref = NoRef \/ heap[ref] = <<>>
    THEN [dicts |-> Append(heap, <<>>), ref |-> Len(heap) + 1]
    ELSE [dicts |-> heap, ref |-> ref]

\* Request.__init__ (through Resource.as_request, which passes no headers):
\* the heap after the three `or {}` and the new Request
Request_init_fields(res, a, b, c) ==
    [dicts |-> c.dicts,
     request |-> [resource |-> res, route_args |-> a.ref,
                  query_args |-> b.ref, headers |-> c.ref]]

Request_init_headers(res, a, b, headers) ==
    Request_init_fields(res, a, b, OrFresh(b.dicts, headers))

Request_init_query_args(res, a, query_args, headers) ==
    Request_init_headers(res, a, OrFresh(a.dicts, query_args), headers)

Request_init(heap, res, route_args, query_args, headers) ==
    Request_init_query_args(res, OrFresh(heap, route_args), query_args, headers)

\* what __init__ raises (validation is its last statement)
Request_init_errors(heap, res, route_args) ==
    Request_validate_route_args(res,
        IF route_args = NoRef THEN <<>> ELSE heap[route_args])

Request_route(heap, r) == Format(route_template[r.resource], heap[r.route_args])

Request_uri(heap, r) == Strip(API_host) \o <<"/">> \o Strip(Request_route(heap, r))

\* Request.__eq__: uri and query_args (dict equality), headers ignored
Request_eq(heap, r1, r2) ==
    /\ Request_uri(heap, r1) = Request_uri(heap, r2)
    /\ DictEq(heap[r1.query_args], heap[r2.query_args])

\* Request.__hash__: hash((uri, tuple(query_args.items()))). The hash of a
\* tuple is taken to be injective, so it is the tuple itself; the items are
\* in insertion order.
Request_hash(heap, r) == <<Request_uri(heap, r), heap[r.query_args]>>

\* ------------------------------------------------------------- FakeDatabase
\* self._entries is a python dict keyed by Request objects: an entry keeps
\* the hash its key had when it was inserted, and a lookup matches an entry
\* whose kept hash equals the probe's hash and whose key == the probe now.
Dict_find(heap, entries, r) ==
    {i \in DOMAIN entries :
        /\ entries[i].hash = Request_hash(heap, r)
        /\ Request_eq(heap, entries[i].key, r)}

Min(S) == CHOOSE x \in S : \A y \in S : x <= y

\* FakeDatabase.put: self._entries[request] = response
Dict_setitem(heap, entries, request, response, found) ==
    IF found # {}
    THEN [entries EXCEPT ![Min(found)].value = response]
    ELSE Append(entries, [hash |-> Request_hash(heap, request),
                          key |-> request, value |-> response])

FakeDatabase_put(heap, entries, request, response) ==
    Dict_setitem(heap, entries, request, response, Dict_find(heap, entries, request))

\* FakeDatabase.get: self._entries.get(request); <<>> is None, <<v>> is v
Dict_getitem(entries, found) ==
    IF found # {} THEN <<entries[Min(found)].value>> ELSE <<>>

FakeDatabase_get(heap, entries, request) ==
    Dict_getitem(entries, Dict_find(heap, entries, request))

\* FakeDatabase.iter_responses: the values, in insertion order
FakeDatabase_iter_responses(entries) == [i \in DOMAIN entries |-> entries[i].value]

\* ---------------------------------------------------------------- transport
\* The paginated server behind HttpClient.send: the page after each page;
\* the last page has no successor.
NextPage == [p \in {"1", "2"} |-> IF p = "1" THEN "2" ELSE "3"]

\* HttpClient.send(request): the exchange reads uri and query_args when it is
\* called (`wire`) and answers Response(request, status, body, headers); a
\* request without a page argument is answered with page 1.
Server_page(request, page) ==
    [request |-> request,
     status |-> 200,
     body |-> <<page>>,
     headers |-> IF page \in DOMAIN NextPage
                 THEN << <<"x-next-page", NextPage[page]>> >>
                 ELSE <<>>]

HttpClient_send(request, wire) ==
    Server_page(request,
        IF DictHas(wire[2], "page") THEN DictGet(wire[2], "page") ELSE "1")

\* ------------------------------------------------------------ asyncio.Queue
\* aio.Queue(): no items, no unfinished task, the _finished event set
Queue_new == [live |-> TRUE, items |-> <<>>, unfinished_tasks |-> 0, finished |-> TRUE]

\* self._async_queue = None
Queue_None == [live |-> FALSE, items |-> <<>>, unfinished_tasks |-> 0, finished |-> TRUE]

\* put_nowait: append, count the task, clear the _finished event
Queue_put_nowait(q, item) ==
    [q EXCEPT !.items = Append(@, item),
              !.unfinished_tasks = @ + 1,
              !.finished = FALSE]

\* (mutation) get leaves the item on the queue
Queue_get_nowait_peeks(q) == q

\* get, with an item on the queue: the head is taken off
Queue_get_nowait(q) == [q EXCEPT !.items = Tail(@)]

\* task_done raises ValueError('task_done() called too many times') and
\* changes nothing when no task is outstanding
Queue_task_done_raises(q) == q.unfinished_tasks <= 0

\* (mutation) the event is set as soon as the queue is seen empty
Queue_task_done_when_empty(q) ==
    IF Queue_task_done_raises(q) THEN q
    ELSE [q EXCEPT !.unfinished_tasks = @ - 1,
                   !.finished = (q.items = <<>>)]

\* (mutation) the task is never marked done
Queue_task_done_forgotten(q) == q

\* (mutation) the task is marked done twice
Queue_task_done_twice(q) ==
    IF Queue_task_done_raises(q) THEN q
    ELSE [q EXCEPT !.unfinished_tasks = IF @ >= 2 THEN @ - 2 ELSE 0,
                   !.finished = (q.unfinished_tasks <= 2)]

\* task_done: one task less; the _finished event is set when none is left
Queue_task_done(q) ==
    IF Queue_task_done_raises(q) THEN q
    ELSE [q EXCEPT !.unfinished_tasks = @ - 1,
                   !.finished = (q.unfinished_tasks - 1 = 0)]

\* ---------------------------------------------------------------- Collector
\* Collector.register on the collector state k (fields dicts, queue,
\* async_queue, units): as_request, then the live queue if there is one,
\* else the pending list. k.raised is the set of errors as_request can raise;
\* when it is not empty nothing else has changed. `via` and `parent` are
\* history only.
\* (mutation) every registration goes to the pending list
Collector_enqueue_pending(k, made, item, unit) ==
    [k EXCEPT !.dicts = made.dicts,
              !.units = Append(@, unit),
              !.queue = Append(@, item),
              !.raised = {}]

Collector_enqueue(k, made, item, unit) ==
    IF k.async_queue.live
    THEN [k EXCEPT !.dicts = made.dicts,
                   !.units = Append(@, unit),
                   !.async_queue = Queue_put_nowait(@, item),
                   !.raised = {}]
    ELSE [k EXCEPT !.dicts = made.dicts,
                   !.units = Append(@, unit),
                   !.queue = Append(@, item),
                   !.raised = {}]

Collector_register_made(k, res, made, parent) ==
    Collector_enqueue(k, made,
        [uid |-> Len(k.units) + 1, request |-> made.request],
        [reg |-> <<res, made.dicts[made.request.route_args],
                   made.dicts[made.request.query_args]>>,
         via |-> IF k.async_queue.live THEN "live" ELSE "pending",
         parent |-> parent,
         trace |-> <<>>])

Collector_register_checked(k, res, route_args, query_args, parent, errors) ==
    IF errors # {}
    THEN [k EXCEPT !.raised = errors]
    ELSE Only({Collector_register_made(k, res, made, parent) :
                  made \in {Request_init(k.dicts, res, route_args, query_args, NoRef)}})

Collector_register(k, res, route_args, query_args, parent) ==
    Collector_register_checked(k, res, route_args, query_args, parent,
        Request_init_errors(k.dicts, res, route_args))

\* -------------------------------------------------------------------- hooks
\* The hook objects a resource or the api can carry:
\*   Hook               the base class, both handlers return None
\*   HeaderPagination   hooks.py
\*   the others are CustomHook(handle_request_fn, handle_response_fn) with
\*   one user function: abort_request / abort_response return Abort,
\*   raise_request / raise_response raise, change_route_arg sets
\*   route_args['p'] = 1 and returns the request, new_request returns
\*   Request(resource, route_args, {'v': '1'}), add_header sets
\*   headers['h'] = 1 and returns the response.
HookKinds ==
    {"Hook", "HeaderPagination", "abort_request", "abort_response",
     "raise_request", "raise_response", "change_route_arg", "new_request",
     "add_header"}

\* hook.handle_request(request, collector=self) on the unit state c, whose
\* c.value is the working request: c with the result kind in c.result and,
\* for a returned Request, the request in c.ret
user_new_request(c, made) ==
    [c EXCEPT !.dicts = made.dicts, !.result = "Request", !.ret = made.request]

HeaderPagination_registered(reg) ==
    IF reg.raised # {}
    THEN [reg EXCEPT !.raised = {}, !.result = "raise"]
    ELSE [reg EXCEPT !.result = "None"]

\* HeaderPagination.handle_response: the next page's number is written into
\* the request's own query_args dict, and that dict is handed to register
HeaderPagination_handle_response(c, request, next_page) ==
    Only({HeaderPagination_registered(reg) :
             reg \in {Collector_register(
                         [c EXCEPT !.dicts[request.query_args] =
                                       DictSet(@, "page", next_page)],
                         request.resource, request.route_args,
                         request.query_args, c.uid)}})

\* (mutation) no handler touches the request
Hook_handle_request_untouched(kind, c) == [c EXCEPT !.result = "None"]

Hook_handle_request(kind, c) ==
    CASE kind \in {"Hook", "HeaderPagination"} ->
            [c EXCEPT !.result = "None"]
      [] kind = "abort_request" ->
            [c EXCEPT !.result = "Abort"]
      [] kind = "raise_request" ->
            [c EXCEPT !.result = "raise"]
      [] kind = "change_route_arg" ->
            [c EXCEPT !.dicts[c.value.route_args] = DictSet(@, "p", "i1"),
                      !.result = "Request", !.ret = c.value]
      [] kind = "new_request" ->
            Only({user_new_request(c, made) :
                     made \in {Request_init(Append(c.dicts, << <<"v", "1">> >>),
                                  c.value.resource, c.value.route_args,
                                  Len(c.dicts) + 1, NoRef)}})
      [] OTHER ->
            \* CustomHook.handle_request without a function: return request
            [c EXCEPT !.result = "Request", !.ret = c.value]

\* hook.handle_response(response, collector=self); c.value is the working
\* response
Hook_handle_response(kind, c) ==
    CASE kind = "Hook" ->
            [c EXCEPT !.result = "None"]
      [] kind = "HeaderPagination" ->
            IF DictHas(c.value.headers, "x-next-page")
            THEN HeaderPagination_handle_response(c, c.value.request,
                     DictGet(c.value.headers, "x-next-page"))
            ELSE [c EXCEPT !.result = "None"]
      [] kind = "abort_response" ->
            [c EXCEPT !.result = "Abort"]
      [] kind = "raise_response" ->
            [c EXCEPT !.result = "raise"]
      [] kind = "add_header" ->
            [c EXCEPT !.result = "Response",
                      !.ret = [c.value EXCEPT !.headers = DictSet(@, "h", "i1")]]
      [] OTHER ->
            \* CustomHook.handle_response without a function: return response
            [c EXCEPT !.result = "Response", !.ret = c.value]

\* Request.run_hooks, the loop `for hook in hooks` from hook number i on: an
\* Abort leaves the loop, a raise leaves the method (c.fault)
RECURSIVE Request_hooks_loop(_, _, _)
\* (mutation) a returned Request does not become the working request
Request_hooks_step_keeps(r, hooks, i) ==
    CASE r.result = "raise"   -> [r EXCEPT !.fault = TRUE]
      [] r.result = "Abort"   -> r
      [] OTHER -> Request_hooks_loop(r, hooks, i + 1)

Request_hooks_step(r, hooks, i) ==
    CASE r.result = "raise"   -> [r EXCEPT !.fault = TRUE]
      [] r.result = "Abort"   -> r
      [] r.result = "Request" ->
             Request_hooks_loop([r EXCEPT !.value = r.ret], hooks, i + 1)
      [] OTHER -> Request_hooks_loop(r, hooks, i + 1)

\* history: the call of hook number i, what it returned, the working value
\* it was given and, when it returned a Request or a Response, that value
Traced_call(r, name, i, kind) ==
    [r EXCEPT !.trace =
        Append(@, <<name, i, r.result, kind, r.value,
                    IF r.result \in {"Request", "Response"} THEN <<r.ret>> ELSE <<>> >>)]

Request_hooks_loop(c, hooks, i) ==
    IF i > Len(hooks) THEN c
    ELSE Only({Request_hooks_step(Traced_call(r, "handle_request", i, hooks[i]),
                                  hooks, i) :
                  r \in {Hook_handle_request(hooks[i], c)}})

\* Request.run_hooks: the loop, then `return request`: the working request
\* is what the caller gets, also when an Abort left the loop
Request_run_hooks(c, hooks) ==
    [Request_hooks_loop(c, hooks, 1) EXCEPT !.returned = "Request"]

\* Response.run_hooks, the loop `for hook in reversed(hooks)` from hook
\* number i down
RECURSIVE Response_hooks_loop(_, _, _)
Response_hooks_step(r, hooks, i) ==
    CASE r.result = "raise"    -> [r EXCEPT !.fault = TRUE]
      [] r.result = "Abort"    -> r
      [] r.result = "Response" ->
             Response_hooks_loop([r EXCEPT !.value = r.ret], hooks, i - 1)
      [] OTHER -> Response_hooks_loop(r, hooks, i - 1)

Response_hooks_loop(c, hooks, i) ==
    IF i < 1 THEN c
    ELSE Only({Response_hooks_step(Traced_call(r, "handle_response", i, hooks[i]),
                                   hooks, i) :
                  r \in {Hook_handle_response(hooks[i], c)}})

\* Response.run_hooks: the loop, then `return response`
Response_run_hooks(c, hooks) ==
    [Response_hooks_loop(c, hooks, Len(hooks)) EXCEPT !.returned = "Response"]

\* ----------------------------------------------------------------- state
VARIABLES
    api_hooks,        \* API.hooks
    resource_hooks,   \* Resource.hooks of each resource
    dicts,            \* the heap of dict objects
    queue,            \* Collector._queue, the pending list
    async_queue,      \* Collector._async_queue
    entries,          \* FakeDatabase._entries
    runpc,            \* where Collector._run is
    pc,               \* where each worker task is
    cur,              \* the unit each worker holds
    must_cancel,      \* tasks cancelled and not yet resumed
    units,            \* history: every registered unit, by uid
    raised,           \* what the last register / get call raised
    got,              \* what the last get call returned
    call,             \* history: the last register / get call and its arguments
    transport_faults, \* history: number of failed sends
    spurious_done     \* history: task_done calls made without a dequeued unit

vars == <<api_hooks, resource_hooks, dicts, queue, async_queue, entries, runpc,
          pc, cur, must_cancel, units, raised, got, call,
          transport_faults, spurious_done>>

Workers == 1..NumWorkers

None == <<>>

NoRequest == [resource |-> "", route_args |-> NoRef, query_args |-> NoRef,
              headers |-> NoRef]

NoCur == [uid |-> 0, request |-> NoRequest, wire |-> <<>>]

\* the hooks of an API: <<the list given to API.add(..., hooks=...) and
\* shared by its resources, the list attached with API.hook>>
HookInputs ==
    { << <<>>, <<>> >>,
      << <<"Hook", "add_header">>, <<"Hook">> >>,
      << <<"change_route_arg">>, <<>> >>,
      << <<"HeaderPagination">>, <<>> >>,
      << <<"abort_request", "change_route_arg">>, <<"Hook">> >>,
      << <<"abort_response", "add_header">>, <<>> >>,
      << <<"Hook">>, <<"abort_request">> >>,
      << <<"add_header">>, <<"abort_response">> >>,
      << <<"new_request", "change_route_arg">>, <<"add_header">> >>,
      << <<"raise_response", "HeaderPagination">>, <<>> >>,
      << <<"raise_request">>, <<"Hook">> >> }

\* arguments of the public register / get calls: a resource, route_args and
\* query_args, each None or a dict literal
RouteArgInputs ==
    { None,
      << << <<"p", "i0">> >> >>,
      << << <<"p", "i1">> >> >>,
      << << <<"q", "i0">> >> >>,
      << << <<"p", "i0">>, <<"q", "i0">> >> >>,
      << << <<"a", "i0">>, <<"b", "i0">> >> >>,
      << << <<"q", "i0">>, <<"r", "i0">> >> >> }

QueryArgInputs == { None, << << <<"page", "3">> >> >> }

\* the calls made in a collection run
RunInputs ==
    { <<"users", None, None>>,
      <<"hooked", << << <<"p", "i0">> >> >>, None>>,
      <<"hooked", None, None>>,
      <<"users", << << <<"p", "i0">> >> >>, None>> }

\* the lookups made once run has returned
GetInputs ==
    { <<"hooked", << << <<"p", "i0">> >> >>, None>>,
      <<"hooked", << << <<"p", "i1">> >> >>, None>> }

\* Collector(db, http_client, num_workers) after API(...).add(...).hook(...)
Init ==
    /\ \E h \in HookInputs :
          /\ resource_hooks = [r \in Resources |-> h[1]]
          /\ api_hooks = h[2]
    /\ dicts = <<>>
    /\ queue = <<>>
    /\ async_queue = Queue_None
    /\ entries = <<>>
    /\ runpc = "init"
    /\ pc = [w \in Workers |-> "none"]
    /\ cur = [w \in Workers |-> NoCur]
    /\ must_cancel = [w \in Workers |-> FALSE]
    /\ units = <<>>
    /\ raised = None
    /\ got = None
    /\ call = None
    /\ transport_faults = 0
    /\ spurious_done = 0

\* the caller's dict literal becomes an object of the heap
Alloc(heap, arg) ==
    IF arg = None THEN [dicts |-> heap, ref |-> NoRef]
    ELSE [dicts |-> Append(heap, arg[1]), ref |-> Len(heap) + 1]

\* the collector state as Collector_register takes it
Collector_state(heap) ==
    [dicts |-> heap, queue |-> queue, async_queue |-> async_queue,
     units |-> units, raised |-> {}]

Register_args(res, a, b) ==
    Collector_register(Collector_state(b.dicts), res, a.ref, b.ref, 0)

Register_call(res, a, query_args) == Register_args(res, a, Alloc(a.dicts, query_args))

Register_result(k) ==
    IF k.raised # {}
    THEN /\ \E e \in k.raised : raised' = e
         /\ UNCHANGED <<dicts, queue, async_queue, units>>
    ELSE /\ raised' = None
         /\ dicts' = k.dicts
         /\ queue' = k.queue
         /\ async_queue' = k.async_queue
         /\ units' = k.units

\* collector.register(resource, route_args, query_args) by the caller, before
\* the run
Register(res, route_args, query_args) ==
    /\ runpc = "init"
    /\ Len(units) < MaxPending
    /\ \E k \in {Register_call(res, Alloc(dicts, route_args), query_args)} :
          Register_result(k)
    /\ got' = None
    /\ call' = <<"register", res, route_args, query_args>>
    /\ UNCHANGED <<api_hooks, resource_hooks, entries, runpc, pc, cur,
                   must_cancel, transport_faults, spurious_done>>

\* Collector.get on values: as_request, then FakeDatabase.get. The result is
\* [raised |-> the errors as_request can raise, got |-> None or <<response>>]
Collector_get_made(db, made) ==
    [raised |-> {}, got |-> FakeDatabase_get(made.dicts, db, made.request)]

Collector_get_checked(db, res, a, b, errors) ==
    IF errors # {}
    THEN [raised |-> errors, got |-> None]
    ELSE Collector_get_made(db, Request_init(b.dicts, res, a.ref, b.ref, NoRef))

Collector_get_args(db, res, a, b) ==
    Collector_get_checked(db, res, a, b, Request_init_errors(b.dicts, res, a.ref))

Collector_get_call(db, res, a, query_args) ==
    Collector_get_args(db, res, a, Alloc(a.dicts, query_args))

Collector_get(heap, db, res, route_args, query_args) ==
    Collector_get_call(db, res, Alloc(heap, route_args), query_args)

Get_result(g) ==
    /\ got' = g.got
    /\ IF g.raised # {} THEN \E e \in g.raised : raised' = e
                        ELSE raised' = None

\* collector.get(resource, route_args, query_args) by the caller, before or
\* after the run
Get(res, route_args, query_args) ==
    /\ runpc \in {"init", "done"}
    /\ \E g \in {Collector_get(dicts, entries, res, route_args, query_args)} :
          Get_result(g)
    /\ call' = <<"get", res, route_args, query_args>>
    /\ UNCHANGED <<api_hooks, resource_hooks, dicts, queue, async_queue, entries,
                   runpc, pc, cur, must_cancel, units, transport_faults,
                   spurious_done>>

\* register and get called with any resource and arguments, before a run
RouteInit ==
    /\ Init
    /\ api_hooks = <<>>
    /\ \A r \in Resources : resource_hooks[r] = <<>>

RouteNext ==
    \E res \in Resources, route_args \in RouteArgInputs :
        \/ Register(res, route_args, None)
        \/ \E query_args \in QueryArgInputs : Get(res, route_args, query_args)

RouteSpec == RouteInit /\ [][RouteNext]_vars

\* Requests built directly, Request(resource, route_args, query_args,
\* headers), and used as keys of the database
TargetInputs ==
    { <<"users", None>>,
      <<"users_slash", None>>,
      <<"hooked", << << <<"p", "i0">> >> >> >>,
      <<"hooked", << << <<"p", "s0">> >> >> >> }

QueryOrderInputs ==
    { None,
      << << <<"x", "1">> >> >>,
      << << <<"x", "1">>, <<"y", "2">> >> >>,
      << << <<"y", "2">>, <<"x", "1">> >> >> }

HeaderInputs == { None, << << <<"accept", "json">> >> >> }

Request_new_headers(res, a, b, c) == Request_init(c.dicts, res, a.ref, b.ref, c.ref)

Request_new_query_args(res, a, b, headers) ==
    Request_new_headers(res, a, b, Alloc(b.dicts, headers))

Request_new_route_args(res, a, query_args, headers) ==
    Request_new_query_args(res, a, Alloc(a.dicts, query_args), headers)

Request_new(heap, res, route_args, query_args, headers) ==
    Request_new_route_args(res, Alloc(heap, route_args), query_args, headers)

\* db.put(Request(...), Response(request, 200, ...)); every Request holds
\* three dicts, so Len(dicts) \div 3 requests were built so far
DbPut(target, query_args, headers) ==
    /\ runpc = "init"
    /\ call = None
    /\ Len(dicts) < 3 * MaxPuts
    /\ \E made \in {Request_new(dicts, target[1], target[2], query_args, headers)} :
          /\ dicts' = made.dicts
          /\ entries' = FakeDatabase_put(made.dicts, entries, made.request,
                                        Server_page(made.request, "1"))
    /\ UNCHANGED <<api_hooks, resource_hooks, queue, async_queue, runpc, pc, cur,
                   must_cancel, units, raised, got, call, transport_faults,
                   spurious_done>>

\* db.get(Request(...))
DbGet(target, query_args, headers) ==
    /\ runpc = "init"
    /\ call = None
    /\ \E made \in {Request_new(dicts, target[1], target[2], query_args, headers)} :
          /\ dicts' = made.dicts
          /\ got' = FakeDatabase_get(made.dicts, entries, made.request)
          /\ call' = <<"db.get", made.request>>
    /\ UNCHANGED <<api_hooks, resource_hooks, queue, async_queue, entries, runpc,
                   pc, cur, must_cancel, units, raised, transport_faults,
                   spurious_done>>

IdentityNext ==
    \E target \in TargetInputs, query_args \in QueryOrderInputs,
       headers \in HeaderInputs :
        \/ DbPut(target, query_args, headers)
        \/ DbGet(target, query_args, headers)

IdentitySpec == RouteInit /\ [][IdentityNext]_vars

\* ------------------------------------------------------------ Collector._run
\* Collector._fill_async_queue: every pending request, in list order
RECURSIVE Collector_fill_async_queue(_, _)
Collector_fill_async_queue(q, pending) ==
    IF pending = <<>> THEN q
    ELSE Collector_fill_async_queue(Queue_put_nowait(q, Head(pending)), Tail(pending))

\* (mutation) join never waits
Queue_join_returns_at_once(q) == FALSE

\* Queue.join blocks when a task is outstanding, on the _finished event
Queue_join_blocks(q) == q.unfinished_tasks > 0

\* A task_done that sets the _finished event resolves the waiter of a
\* blocked join; the join then returns whatever is put afterwards.
Wake(rpc, before, after) ==
    IF rpc = "join" /\ ~before.finished /\ after.finished THEN "woken" ELSE rpc

Run_filled(q) ==
    /\ async_queue' = q
    /\ queue' = <<>>
    /\ pc' = [w \in Workers |-> "new"]
    /\ IF Queue_join_blocks(q)
       THEN /\ runpc' = "join"
            /\ UNCHANGED must_cancel
       ELSE /\ runpc' = "gather"
            /\ must_cancel' = [w \in Workers |-> TRUE]

\* run() up to its first suspension: the queue is created and filled, the
\* worker tasks are created, join() is called. With nothing outstanding join
\* returns at once and the tasks are cancelled before any of them has run.
Run ==
    /\ runpc = "init"
    /\ \E q \in {Collector_fill_async_queue(Queue_new, queue)} : Run_filled(q)
    /\ raised' = None
    /\ got' = None
    /\ call' = None
    /\ UNCHANGED <<api_hooks, resource_hooks, dicts, entries, cur, units,
                   transport_faults, spurious_done>>

\* join() has returned: `for task in tasks: task.cancel()`, then gather
\* (cancelling a task that has already ended does nothing)
RunCancel ==
    /\ runpc = "woken"
    /\ runpc' = "gather"
    /\ must_cancel' = [w \in Workers |-> pc[w] # "failed"]
    /\ UNCHANGED <<api_hooks, resource_hooks, dicts, queue, async_queue, entries,
                   pc, cur, units, raised, got, call, transport_faults, spurious_done>>

\* gather has every task's outcome: self._async_queue = None, run() returns
RunFinish ==
    /\ runpc = "gather"
    /\ \A w \in Workers : pc[w] \in {"cancelled", "failed"}
    /\ async_queue' = Queue_None
    /\ runpc' = "done"
    /\ UNCHANGED <<api_hooks, resource_hooks, dicts, queue, entries, pc, cur,
                   must_cancel, units, raised, got, call, transport_faults,
                   spurious_done>>

\* ---------------------------------------------------------- Collector._worker
\* (mutation) the api's hooks first
Worker_hooks_api_first(request) == api_hooks \o resource_hooks[request.resource]

\* hooks = resource.hooks + resource.api.hooks
Worker_hooks(request) == resource_hooks[request.resource] \o api_hooks

\* the state of one unit while its hooks run
Unit_state(q, uid, value) ==
    [dicts |-> dicts, queue |-> queue, async_queue |-> q, units |-> units,
     raised |-> {}, uid |-> uid, value |-> value, result |-> "None",
     ret |-> value, trace |-> units[uid].trace, fault |-> FALSE,
     returned |-> ""]

\* history: an event of a unit's trace that is not a hook call; a hook call
\* is <<"handle_request" or "handle_response", the hook's number in hooks,
\* what it returned, the hook>>
Event(name) == <<name, 0, "", "">>

\* history: the send of a request with the identity it has at the call, the
\* put of a response under a request with the identity it has at the put
EventWith(name, request, value, identity) ==
    <<name, 0, "", "", request, value, identity>>

\* the unit's history written back
Traced(c, events) == [c.units EXCEPT ![c.uid].trace = c.trace \o events]

\* the finally clause: self._async_queue.task_done()
Worker_finally(before) ==
    /\ async_queue' = Queue_task_done(before)
    /\ runpc' = Wake(runpc, before, Queue_task_done(before))

\* after request.run_hooks: `if request is Abort: continue`, else the send
\* call, which reads the request as it is now
Worker_request_phase(w, c) ==
    /\ dicts' = c.dicts
    /\ IF c.fault \/ c.returned = "Abort"
       THEN /\ Worker_finally(c.async_queue)
            /\ pc' = [pc EXCEPT ![w] = IF c.fault THEN "failed" ELSE "get"]
            /\ cur' = [cur EXCEPT ![w] = NoCur]
            /\ units' = Traced(c, << Event("task_done") >>)
       ELSE /\ async_queue' = c.async_queue
            /\ runpc' = runpc
            /\ pc' = [pc EXCEPT ![w] = "send"]
            /\ cur' = [cur EXCEPT ![w] =
                         [uid |-> c.uid, request |-> c.value,
                          wire |-> Request_hash(c.dicts, c.value)]]
            /\ units' = Traced(c, << EventWith("send", c.value, <<>>,
                                             Request_hash(c.dicts, c.value)) >>)

\* after response.run_hooks: `if response is not Abort: self._db.put(...)`,
\* then the finally clause
Worker_response_phase(w, request, c) ==
    /\ dicts' = c.dicts
    /\ Worker_finally(c.async_queue)
    /\ pc' = [pc EXCEPT ![w] = IF c.fault THEN "failed" ELSE "get"]
    /\ cur' = [cur EXCEPT ![w] = NoCur]
    /\ IF ~c.fault /\ c.returned # "Abort"
       THEN /\ entries' = FakeDatabase_put(c.dicts, entries, request, c.value)
            /\ units' = Traced(c, << EventWith("put", request, c.value,
                                             Request_hash(c.dicts, request)),
                                   Event("task_done") >>)
       ELSE /\ entries' = entries
            /\ units' = Traced(c, << Event("task_done") >>)

\* From `await self._async_queue.get()` returning an item to the next
\* suspension: the request hooks, then either the send call (suspends), or
\* the finally clause on `continue` or on a raise. A raise ends the task.
WorkerGet(w) ==
    /\ pc[w] \in {"new", "get"}
    /\ ~must_cancel[w]
    /\ async_queue.live
    /\ async_queue.items # <<>>
    /\ \E c \in {Request_run_hooks(
                   Unit_state(Queue_get_nowait(async_queue),
                              Head(async_queue.items).uid,
                              Head(async_queue.items).request),
                   Worker_hooks(Head(async_queue.items).request))} :
          Worker_request_phase(w, c)
    /\ UNCHANGED <<api_hooks, resource_hooks, queue, entries, must_cancel, raised,
                   got, call, transport_faults, spurious_done>>

\* From send returning a response to the next suspension: the response
\* hooks, the put unless the hooks returned Abort, the finally clause.
WorkerSend(w) ==
    /\ pc[w] = "send"
    /\ ~must_cancel[w]
    /\ \E c \in {Response_run_hooks(
                   Unit_state(async_queue, cur[w].uid,
                              HttpClient_send(cur[w].request, cur[w].wire)),
                   Worker_hooks(cur[w].request))} :
          Worker_response_phase(w, cur[w].request, c)
    /\ UNCHANGED <<api_hooks, resource_hooks, queue, must_cancel, raised, got, call,
                   transport_faults, spurious_done>>

\* send raises (a transport error): the finally clause, and the task ends
WorkerSendFails(w) ==
    /\ pc[w] = "send"
    /\ ~must_cancel[w]
    /\ transport_faults < MaxTransportFaults
    /\ transport_faults' = transport_faults + 1
    /\ Worker_finally(async_queue)
    /\ pc' = [pc EXCEPT ![w] = "failed"]
    /\ cur' = [cur EXCEPT ![w] = NoCur]
    /\ units' = [units EXCEPT ![cur[w].uid].trace =
                    @ \o << Event("send_raised"), Event("task_done") >>]
    /\ UNCHANGED <<api_hooks, resource_hooks, dicts, queue, entries, must_cancel,
                   raised, got, call, spurious_done>>

\* A cancelled task is resumed with CancelledError at its suspension point.
\* A task that never ran just ends. Inside the loop the finally clause runs
\* task_done: for a worker waiting in get() that is a task_done without a
\* dequeued unit (ValueError when nothing is outstanding); the task ends.
WorkerCancelled(w) ==
    /\ must_cancel[w]
    /\ must_cancel' = [must_cancel EXCEPT ![w] = FALSE]
    /\ pc' = [pc EXCEPT ![w] = "cancelled"]
    /\ cur' = [cur EXCEPT ![w] = NoCur]
    /\ IF pc[w] = "new"
       THEN UNCHANGED <<async_queue, units, spurious_done>>
       ELSE /\ async_queue' = Queue_task_done(async_queue)
            /\ IF pc[w] = "send"
               THEN /\ units' = [units EXCEPT ![cur[w].uid].trace =
                                    @ \o << Event("cancelled"),
                                            Event("task_done") >>]
                    /\ UNCHANGED spurious_done
               ELSE /\ spurious_done' = spurious_done + 1
                    /\ UNCHANGED units
    /\ UNCHANGED <<api_hooks, resource_hooks, dicts, queue, entries, runpc, raised,
                   got, call, transport_faults>>

Next ==
    \/ \E i \in RunInputs : Register(i[1], i[2], i[3])
    \/ Run
    \/ RunCancel
    \/ RunFinish
    \/ \E w \in Workers : WorkerGet(w)
    \/ \E w \in Workers : WorkerSend(w)
    \/ \E w \in Workers : WorkerSendFails(w)
    \/ \E w \in Workers : WorkerCancelled(w)
    \/ \E g \in GetInputs : runpc = "done" /\ Get(g[1], g[2], g[3])

Spec == Init /\ [][Next]_vars

\* The event loop runs every task that can run: the coordinator and each
\* worker get weak fairness on their own steps. A send may fail instead of
\* returning; nothing forces it to.
FairSpec ==
    /\ Spec
    /\ WF_vars(RunCancel)
    /\ WF_vars(RunFinish)
    /\ \A w \in Workers :
          /\ WF_vars(WorkerGet(w))
          /\ WF_vars(WorkerSend(w))
          /\ WF_vars(WorkerCancelled(w))

\* ------------------------------------------------------------------ claims
\* a unit has been through the worker's finally clause
Processed(u) ==
    /\ units[u].trace # <<>>
    /\ units[u].trace[Len(units[u].trace)] = Event("task_done")

HasEvent(u, name) == \E m \in DOMAIN units[u].trace : units[u].trace[m][1] = name

InFlight == {w \in Workers : pc[w] = "send"}

\* C1: once join() has returned, and so at the moment run() returns, the
\* work queue is empty, no worker holds a unit, and every unit ever
\* registered, before or during the run, has been processed to its end.
C1_ReturnsOnlyWhenQuiescent ==
    runpc \in {"woken", "gather", "done"} =>
        /\ async_queue.items = <<>>
        /\ \A w \in Workers : pc[w] # "send" /\ cur[w] = NoCur
        /\ \A u \in DOMAIN units : Processed(u)

\* a run has returned whose only pending request was followed by two
\* requests registered from inside its units: the queue was empty while a
\* unit was in flight
C1_Witness ==
    /\ runpc = "done"
    /\ Len(units) = 3
    /\ units[1].via = "pending"
    /\ units[2].via = "live"
    /\ units[3].via = "live"

\* C2: a run that has started returns, with every registered request
\* processed and every worker task ended, unless a unit faults (a worker
\* task that ended by a raise inside its unit).
C2_RunTerminates ==
    (runpc # "init") ~>
        \/ /\ runpc = "done"
           /\ \A u \in DOMAIN units : Processed(u)
           /\ \A w \in Workers : pc[w] = "cancelled"
        \/ \E w \in Workers : pc[w] = "failed"

\* a run with re-registered requests has returned and no unit has faulted
C2_Witness ==
    /\ runpc = "done"
    /\ \A w \in Workers : pc[w] = "cancelled"
    /\ \E u \in DOMAIN units : units[u].via = "live"
    /\ Len(units) > MaxPending

\* some handler of the given phase returned Abort for unit u
Aborted(u, phase) ==
    \E m \in DOMAIN units[u].trace :
        units[u].trace[m][1] = phase /\ units[u].trace[m][3] = "Abort"

\* C3: a unit for which some hook's handle_request returned Abort is never
\* sent to the transport and never put into storage.
C3_RequestAbortPreventsSendAndPut ==
    \A u \in DOMAIN units :
        Aborted(u, "handle_request") => ~HasEvent(u, "send") /\ ~HasEvent(u, "put")

\* C4: a unit for which some hook's handle_response returned Abort is never
\* put into storage.
C4_ResponseAbortPreventsPut ==
    \A u \in DOMAIN units : Aborted(u, "handle_response") => ~HasEvent(u, "put")

\* H of the claim: the unit's resource hooks followed by the api hooks
ClaimH(u) == resource_hooks[units[u].reg[1]] \o api_hooks

\* the send event of a trace, 0 when there is none
SendAt(t) ==
    IF \E m \in DOMAIN t : t[m][1] = "send"
    THEN CHOOSE m \in DOMAIN t : t[m][1] = "send"
    ELSE 0

\* C5 for one trace t and hook list h: the m-th event of a unit is the
\* request call of hook m of h as long as request calls last; the send comes
\* after all of h (or after an Abort) and after nothing but request calls;
\* the k-th event after the send is the response call of hook Len(h) - k + 1;
\* the put comes after all of h was called in reverse (or after an Abort).
HookOrder(t, h) ==
    \A m \in DOMAIN t :
        /\ t[m][1] = "handle_request" =>
              /\ m <= Len(h) /\ t[m][2] = m /\ t[m][4] = h[m]
              /\ SendAt(t) = 0 \/ m < SendAt(t)
        /\ t[m][1] = "send" =>
              /\ \A j \in 1..(m - 1) : t[j][1] = "handle_request"
              /\ m = Len(h) + 1 \/ (m > 1 /\ t[m - 1][3] = "Abort")
        /\ t[m][1] = "handle_response" =>
              /\ SendAt(t) # 0 /\ SendAt(t) < m
              /\ t[m][2] = Len(h) - (m - SendAt(t) - 1)
              /\ t[m][2] >= 1
              /\ t[m][4] = h[t[m][2]]
        /\ t[m][1] = "put" =>
              /\ SendAt(t) # 0
              /\ \A j \in (SendAt(t) + 1)..(m - 1) : t[j][1] = "handle_response"
              /\ m = SendAt(t) + Len(h) + 1 \/ t[m - 1][3] = "Abort"

\* C5: within every unit, handle_request is called on resource hooks then
\* api hooks in list order, all before the send; handle_response is called
\* in the exact reverse order, all after the send.
C5_HookOrder == \A u \in DOMAIN units : HookOrder(units[u].trace, ClaimH(u))

\* a unit with two resource hooks and one api hook ran both phases in full
\* and was stored
C5_Witness ==
    \E u \in DOMAIN units :
        /\ Len(resource_hooks[units[u].reg[1]]) = 2
        /\ Len(api_hooks) = 1
        /\ HasEvent(u, "put")
        /\ ~Aborted(u, "handle_request")
        /\ ~Aborted(u, "handle_response")
        /\ units[u].trace[3][1] = "handle_request"
        /\ units[u].trace[5][1] = "handle_response"

\* the keys given as route arguments in the last call, and the placeholders
\* of the route template of its resource
CallKeys == IF call[3] = None THEN {} ELSE DictKeys(call[3][1])

CallParams == Resource_route_params(call[2])

RaisedMissing ==
    /\ raised # None
    /\ raised[1] = "Missing route argument for parameter"
    /\ raised[2] \in CallParams \ CallKeys

RaisedUnknown ==
    /\ raised # None
    /\ raised[1] = "Unknown route parameter"
    /\ raised[2] \in CallKeys \ CallParams

\* a register call that raises leaves the pending list, the queue and the
\* units as they were; one that returns adds one pending request
RegisterEnqueues ==
    call'[1] = "register" =>
        IF raised' # None
        THEN UNCHANGED <<queue, async_queue, units, entries>>
        ELSE Len(queue') = Len(queue) + 1 /\ Len(units') = Len(units) + 1

\* C7 as stated: construction (by register or get) succeeds iff the keys
\* equal the placeholders; a missing placeholder gives the missing-argument
\* error naming it, an extra key gives the unknown-parameter error naming it.
C7_AsStated ==
    call # None =>
        /\ raised = None <=> CallKeys = CallParams
        /\ CallParams \ CallKeys # {} => RaisedMissing
        /\ CallKeys \ CallParams # {} => RaisedUnknown

\* C7 amended: construction (by register or get) succeeds iff the keys equal
\* the placeholders; a missing placeholder gives the missing-argument error
\* naming it; an extra key gives the unknown-parameter error naming it only
\* when no placeholder is missing. A failing get returns nothing and a
\* failing register enqueues nothing.
C7_RouteArgs ==
    call # None =>
        /\ raised = None <=> CallKeys = CallParams
        /\ CallParams \ CallKeys # {} => RaisedMissing
        /\ (CallParams \ CallKeys = {} /\ CallKeys \ CallParams # {}) => RaisedUnknown
        /\ raised # None => got = None

C7_RouteArgsChecked == []C7_RouteArgs /\ [][RegisterEnqueues]_vars

\* a register call with an extra key and no missing placeholder failed after
\* an earlier one had succeeded
C7_Witness ==
    /\ call # None
    /\ call[1] = "register"
    /\ CallParams \ CallKeys = {}
    /\ RaisedUnknown
    /\ Len(queue) = 1

\* the identity of the claim: the same resolved uri and the same set of
\* query-argument pairs
SameIdentity(r1, r2) ==
    /\ Request_uri(dicts, r1) = Request_uri(dicts, r2)
    /\ DictItems(dicts[r1.query_args]) = DictItems(dicts[r2.query_args])

\* C6: a request r2 is equal to and hashes like a stored key r1 iff both
\* have the same resolved uri and the same set of query-argument pairs,
\* whatever their headers and the insertion order of the query arguments;
\* and then a put under r1 is found by a get under r2.
C6_IdentityContract ==
    (call # None /\ call[1] = "db.get") =>
        \A i \in DOMAIN entries :
            /\ SameIdentity(entries[i].key, call[2]) <=>
                  /\ Request_eq(dicts, entries[i].key, call[2])
                  /\ Request_hash(dicts, entries[i].key) = Request_hash(dicts, call[2])
            /\ SameIdentity(entries[i].key, call[2]) => got # None

Unprocessed == {u \in DOMAIN units : ~Processed(u)}

QueuedUids(items) == {items[i].uid : i \in DOMAIN items}

HeldUids == {cur[w].uid : w \in Workers} \ {0}

\* C8, the states: before the run every registered request is on the pending
\* list, in registration order, and there is no live queue; from the start of
\* the run on the pending list stays empty, the outstanding-work count is the
\* number of registered units not yet through task_done, a unit registered
\* during the run is on the live queue or held by a worker until then, and
\* when run has returned every unit has been processed.
C8_States ==
    /\ runpc = "init" =>
          /\ ~async_queue.live
          /\ Len(queue) = Len(units)
          /\ \A i \in DOMAIN queue : queue[i].uid = i /\ units[i].via = "pending"
    /\ runpc # "init" => queue = <<>>
    /\ async_queue.live =>
          async_queue.unfinished_tasks = Cardinality(Unprocessed)
    /\ \A u \in Unprocessed :
          units[u].via = "live" =>
              /\ runpc = "join"
              /\ u \in QueuedUids(async_queue.items) \cup HeldUids
    /\ runpc = "done" => Unprocessed = {}

\* C8, the steps: run puts the pending list on the work queue in list order
\* and counts it; a registration made during the run is made by a hook of a
\* unit in flight, goes to the tail of the live queue in the same step, and
\* leaves the pending list alone.
C8_Steps ==
    /\ (runpc = "init" /\ runpc' # "init") =>
          /\ async_queue'.items = queue
          /\ async_queue'.unfinished_tasks = Len(queue)
    /\ (runpc # "init" /\ Len(units') > Len(units)) =>
          /\ queue' = queue
          /\ \A u \in (Len(units) + 1)..Len(units') :
                /\ units'[u].via = "live"
                /\ units'[u].parent \in HeldUids
                /\ u \in QueuedUids(async_queue'.items)
          /\ async_queue'.unfinished_tasks =
                Cardinality({u \in DOMAIN units' : units'[u].trace = <<>>
                                \/ units'[u].trace[Len(units'[u].trace)] # Event("task_done")})

\* C8: register before the run appends to the pending list, which run
\* transfers to the work queue in registration order; register during the run
\* (from a hook of a unit in flight) puts the request on the live queue and
\* counts it, and the request is processed before run returns.
C8_RegisterReentrant == []C8_States /\ [][C8_Steps]_vars

\* run has returned after two pending units and a unit that a hook of the
\* second one registered during the run, which was sent and stored
C8_Witness ==
    /\ runpc = "done"
    /\ Len(units) >= 3
    /\ units[1].via = "pending"
    /\ units[2].via = "pending"
    /\ \E u \in DOMAIN units :
          /\ units[u].via = "live"
          /\ units[u].parent = 2
          /\ HasEvent(u, "put")
          /\ Processed(u)

\* the pagination scenario: one paginated request registered before the run,
\* every send answered, run returned
PaginationDone ==
    /\ runpc = "done"
    /\ api_hooks = <<>>
    /\ resource_hooks["users"] = <<"HeaderPagination">>
    /\ transport_faults = 0
    /\ units # <<>>
    /\ units[1].reg = <<"users", <<>>, <<>>>>
    /\ \A u \in DOMAIN units : u > 1 => units[u].via = "live"

\* C9: when run returns, the chain of three pages that the pagination hook
\* registered one after the other has been drained, and iter_responses
\* yields exactly three stored responses, one per page.
C9_ThreePagesStored ==
    PaginationDone =>
        /\ Len(units) = 3
        /\ \A u \in DOMAIN units : Processed(u) /\ HasEvent(u, "send")
        /\ Len(FakeDatabase_iter_responses(entries)) = 3
        /\ {FakeDatabase_iter_responses(entries)[i].body : i \in DOMAIN entries}
              = {<<"1">>, <<"2">>, <<"3">>}

\* the rewriting scenario: the resource's only hook sets route argument p to
\* 1 in handle_request, a request for p = 0 was registered, sent and stored,
\* and run has returned
RewriteDone ==
    /\ runpc = "done"
    /\ api_hooks = <<>>
    /\ resource_hooks["hooked"] = <<"change_route_arg">>
    /\ \E u \in DOMAIN units :
          /\ units[u].reg = <<"hooked", << <<"p", "i0">> >>, <<>> >>
          /\ HasEvent(u, "put")

C11_FailureIsolated ==
    (runpc # "init") ~> (runpc = "done" /\ \A u \in DOMAIN units : Processed(u))

\* C12: a fault in a hook or in the send does not end the worker: no worker
\* task ends by a raise, so all NumWorkers workers stay in their loop until
\* they are cancelled.
C12_WorkerSurvivesFault ==
    \A w \in Workers : pc[w] # "failed"

\* the task_done events of a trace
TaskDones(t) == {m \in DOMAIN t : t[m][1] = "task_done"}

\* some hook call of unit u raised
Faulted(u) ==
    \E m \in DOMAIN units[u].trace : units[u].trace[m][3] = "raise"

\* C13, the states: a unit has at most one task_done, and it is the last
\* event of its processing; the count of the live queue is the number of
\* queued units plus the number of units held by workers.
C13_States ==
    /\ \A u \in DOMAIN units :
          /\ Cardinality(TaskDones(units[u].trace)) <= 1
          /\ TaskDones(units[u].trace) # {} => Processed(u)
    /\ async_queue.live =>
          async_queue.unfinished_tasks =
              Len(async_queue.items) + Cardinality(HeldUids)

\* C13, the steps: the unit that ends its processing was dequeued (it is
\* held by a worker, or it is the head of the queue and is dequeued in this
\* step), the count goes down by one for it after going up by one for each
\* request its hooks registered; and the count never goes down otherwise.
C13_Steps ==
    /\ \A u \in DOMAIN units :
          (~Processed(u) /\ Processed(u)') =>
              /\ \/ u \in HeldUids
                 \/ /\ async_queue.items # <<>>
                    /\ Head(async_queue.items).uid = u
              /\ async_queue'.unfinished_tasks =
                    async_queue.unfinished_tasks + (Len(units') - Len(units)) - 1
              /\ \A v \in (Len(units) + 1)..Len(units') : units'[v].parent = u
    /\ (async_queue.live /\ async_queue'.live
          /\ async_queue'.unfinished_tasks < async_queue.unfinished_tasks) =>
              \E u \in DOMAIN units : ~Processed(u) /\ Processed(u)'

\* C13: the count is decremented exactly once for every dequeued unit, on
\* every way out of its processing (stored, Abort in either phase, a raise in
\* a hook, a failed send), after the unit's processing and the registrations
\* it made; the count is always queued plus in-flight units.
C13_CountedOnce == []C13_States /\ [][C13_Steps]_vars

\* in one run a unit ended by a failed send and another by a raise in a hook,
\* both counted done
C13_Witness ==
    /\ async_queue.live
    /\ \E u1, u2 \in DOMAIN units :
          /\ HasEvent(u1, "send_raised")
          /\ Processed(u1)
          /\ Faulted(u2)
          /\ Processed(u2)

\* C14, the states: while cancellation is under way (from the cancel calls
\* to the return of run) nothing is queued or outstanding and no worker
\* holds a unit: every worker waits in get() on the empty queue, has not run
\* yet, or has ended.
C14_States ==
    (runpc \in {"gather", "done"} \/ \E w \in Workers : must_cancel[w]) =>
        /\ async_queue.items = <<>>
        /\ async_queue.unfinished_tasks = 0
        /\ \A w \in Workers :
              /\ cur[w] = NoCur
              /\ pc[w] \in {"new", "get", "failed", "cancelled"}

\* C14, the steps: a worker with a cancellation pending does nothing but end;
\* when it ends it was waiting in get() or had not run, and the step dequeues
\* nothing, sends nothing and stores nothing; once ended it stays ended.
C14_Steps ==
    \A w \in Workers :
        /\ must_cancel[w] => pc'[w] \in {pc[w], "cancelled"}
        /\ (pc[w] # "cancelled" /\ pc'[w] = "cancelled") =>
              /\ must_cancel[w]
              /\ pc[w] \in {"new", "get"}
              /\ async_queue'.items = async_queue.items
              /\ entries' = entries
              /\ units' = units
              /\ cur' = cur
        /\ pc[w] = "cancelled" => pc'[w] = "cancelled"

\* C14: the workers are cancelled only at quiescence, when none of them is
\* inside a unit, and a cancelled worker ends without dequeuing, sending or
\* storing anything more.
C14_CancelAtQuiescence == []C14_States /\ [][C14_Steps]_vars

\* a worker waiting in get() has a cancellation pending after a run that
\* stored a response
C14_Witness ==
    /\ runpc = "gather"
    /\ entries # <<>>
    /\ \E w \in Workers : must_cancel[w] /\ pc[w] = "get"

\* the identity of a stored key as it reads now
KeyIdentity(i) ==
    <<Request_uri(dicts, entries[i].key), DictItems(dicts[entries[i].key.query_args])>>

\* the workers whose unit is stored in this step
Putting(w) ==
    /\ pc[w] = "send"
    /\ ~HasEvent(cur[w].uid, "put")
    /\ \E m \in DOMAIN units'[cur[w].uid].trace :
          units'[cur[w].uid].trace[m][1] = "put"

\* C15, the states: storage holds at most one entry per request identity,
\* get with a stored key returns that entry's response, and iter_responses
\* yields one response per stored identity.
C15_States ==
    /\ \A i, j \in DOMAIN entries : KeyIdentity(i) = KeyIdentity(j) => i = j
    /\ \A i \in DOMAIN entries :
          FakeDatabase_get(dicts, entries, entries[i].key) = <<entries[i].value>>
    /\ Len(FakeDatabase_iter_responses(entries))
          = Cardinality({KeyIdentity(i) : i \in DOMAIN entries})

\* C15, the steps: right after a worker's put, get with the request it put
\* returns the response of that put
C15_Steps ==
    \A w \in Workers :
        Putting(w) =>
            /\ FakeDatabase_get(dicts', entries', cur[w].request) # None
            /\ FakeDatabase_get(dicts', entries', cur[w].request)[1].request
                  = cur[w].request

\* C15: after any interleaving of the workers' puts, storage holds at most
\* one entry per request identity, get for an identity returns the response
\* of the most recent put, and iter_responses yields exactly one response per
\* stored identity.
C15_LastWriteWins == []C15_States /\ [][C15_Steps]_vars

\* the working value after a hook call: what the hook returned when it
\* returned a Request or a Response, else the value it was given
Working(e) == IF e[6] # <<>> THEN e[6][1] ELSE e[5]

\* C16 for one trace: each call of a phase is given the working value left
\* by the call before it; the request sent is the working request left by
\* the request phase; the first response call is given a response to the
\* request sent; the put stores, under the request sent, the working
\* response left by the response phase.
ChainValues(t) ==
    \A m \in DOMAIN t :
        /\ (m > 1 /\ t[m][1] = "handle_request") => t[m][5] = Working(t[m - 1])
        /\ (m > 1 /\ t[m][1] = "send") => t[m][5] = Working(t[m - 1])
        /\ (m > 1 /\ t[m][1] = "handle_response") =>
              IF t[m - 1][1] = "send"
              THEN t[m][5].request = t[m - 1][5]
              ELSE t[m][5] = Working(t[m - 1])
        /\ t[m][1] = "put" =>
              /\ t[m][5] = t[SendAt(t)][5]
              /\ t[m - 1][1] = "handle_response" => t[m][6] = Working(t[m - 1])
              /\ t[m - 1][1] = "send" => t[m][6].request = t[m][5]

\* the events of all units
Events ==
    UNION {{units[u].trace[m] : m \in DOMAIN units[u].trace} : u \in DOMAIN units}

C17_AbortStopsChain ==
    \A u \in DOMAIN units :
        \A m, n \in DOMAIN units[u].trace :
            (m < n /\ units[u].trace[m][3] = "Abort") =>
                /\ units[u].trace[n][1] # "handle_response"
                /\ units[u].trace[m][1] = "handle_request" =>
                      units[u].trace[n][1] # "handle_request"

\* how many of: on the queue, held by a worker, processed, hold for unit u
Owned(u) ==
    Cardinality({i \in DOMAIN async_queue.items : async_queue.items[i].uid = u})
    + Cardinality({w \in Workers : cur[w].uid = u})
    + (IF Processed(u) THEN 1 ELSE 0)

\* C18, the states: during and after a run every unit is in exactly one
\* place: once on the queue, or held by one worker, or processed; no two
\* workers hold the same unit; no unit is sent or stored twice.
C18_States ==
    /\ runpc # "init" => \A u \in DOMAIN units : Owned(u) = 1
    /\ \A w1, w2 \in Workers :
          (w1 # w2 /\ cur[w1] # NoCur) =>
              /\ cur[w1].uid # cur[w2].uid
              /\ cur[w1].request # cur[w2].request
    /\ \A u \in DOMAIN units :
          \A m, n \in DOMAIN units[u].trace :
              (units[u].trace[m][1] = units[u].trace[n][1]
                 /\ units[u].trace[m][1] \in {"send", "put", "task_done"}) => m = n

\* C18, the steps: a unit leaves the queue from its head, to one worker or
\* to the end of its processing; a unit held or processed never goes back
\* on the queue; a processed unit is not touched again.
C18_Steps ==
    \A u \in DOMAIN units :
        /\ (u \in QueuedUids(async_queue.items)
              /\ u \notin QueuedUids(async_queue'.items)) =>
                  /\ Head(async_queue.items).uid = u
                  /\ Cardinality({w \in Workers : cur'[w].uid = u}) = 1
                        \/ Processed(u)'
        /\ (u \in HeldUids \/ Processed(u)) =>
              u \notin QueuedUids(async_queue'.items)
        /\ Processed(u) => units'[u] = units[u]

\* C18: every queue item is dequeued by exactly one worker, none is
\* processed twice and none is lost, and two workers never hold the same
\* request.
C18_SingleOwner == []C18_States /\ [][C18_Steps]_vars

\* all workers are inside a unit at once, one of them a unit that was
\* registered during the run
C18_Witness ==
    /\ \A w \in Workers : pc[w] = "send"
    /\ \E w \in Workers : units[cur[w].uid].via = "live"

\* the send event of unit u (u has been sent)
SendEvent(u) == units[u].trace[SendAt(units[u].trace)]

\* the queued requests that a hook of a unit registered, with that unit
FollowUps ==
    {<<async_queue.items[i].request, units[async_queue.items[i].uid].parent>> :
        i \in {j \in DOMAIN async_queue.items :
                  units[async_queue.items[j].uid].parent # 0}}

\* C19: a response is put under the identity its request had when it was
\* sent; a stored key still has the identity it was stored under; and a
\* request registered by a response hook does not have the identity of the
\* request of the unit that registered it.
C19_IdentityAtDispatch ==
    /\ \A u \in DOMAIN units :
          \A m \in DOMAIN units[u].trace :
              units[u].trace[m][1] = "put" => units[u].trace[m][7] = SendEvent(u)[7]
    /\ \A i \in DOMAIN entries :
          entries[i].hash = Request_hash(dicts, entries[i].key)
    /\ \A f \in FollowUps :
          SendAt(units[f[2]].trace) # 0 =>
              ~Request_eq(dicts, f[1], SendEvent(f[2])[5])

\* C20: task_done is invoked once for each dequeued unit and never without
\* one: the number of task_done calls that had no dequeued unit is zero.
C20_TaskDoneOnlyForDequeued ==
    spurious_done = 0

\* the units that have been dequeued and not yet marked done: registered,
\* neither on the pending list nor on the live queue, and not processed
Dequeued ==
    {u \in DOMAIN units :
        /\ u \notin QueuedUids(queue)
        /\ u \notin QueuedUids(async_queue.items)
        /\ ~Processed(u)}

\* C21: the number of units in flight (dequeued and not yet marked done) is at
\* most the number of workers, by the units themselves and by the count of
\* the live queue; every unit in flight is held by exactly one worker that is
\* in its send, and a worker holds one unit or none.
C21_PoolBounded ==
    /\ Cardinality(Dequeued) <= NumWorkers
    /\ async_queue.live =>
          /\ async_queue.unfinished_tasks - Len(async_queue.items) >= 0
          /\ async_queue.unfinished_tasks - Len(async_queue.items) <= NumWorkers
    /\ \A u \in Dequeued :
          Cardinality({w \in Workers : pc[w] = "send" /\ cur[w].uid = u}) = 1
    /\ \A w \in Workers :
          /\ pc[w] = "send" => cur[w].uid \in Dequeued
          /\ pc[w] # "send" => cur[w] = NoCur

\* every worker has a unit in flight while a third unit of the same run has
\* already been processed: the pool is full and has been reused
C21_Witness ==
    /\ Cardinality(Dequeued) = NumWorkers
    /\ Len(units) > NumWorkers
    /\ \E u \in DOMAIN units : Processed(u)

====
